---- MODULE Spec2Model ----
(***************************************************************************)
(* Model of src/src/net.rs: the HttpListener / HttpAcceptor / HttpStream   *)
(* adapter over the TCP transport, and the erased stream handle            *)
(* Box<NetworkStream + Send>.                                              *)
(*                                                                         *)
(* The adapter adds no logic of its own: every method forwards to the      *)
(* `inner` TcpListener / TcpAcceptor / TcpStream.  The transport is        *)
(* modelled at each call site by what std::io::net::tcp documents for the  *)
(* call: an acceptor's clones share one listening socket and one closed    *)
(* flag, close_accept() sets the flag and wakes blocked accept() calls,    *)
(* accept() on a closed acceptor returns the EndOfFile ("closed") error,   *)
(* a TcpStream's clones share one socket which is closed when the last     *)
(* clone is dropped.                                                       *)
(*                                                                         *)
(* Of the write status, net.rs holds the two marker types and the sealed   *)
(* trait; the transition of the value that carries the tag lives in the    *)
(* request / response code and is modelled from spec.md, section 4.4.      *)
(*                                                                         *)
(* Definitions named X_<variant> are faulty variants of X, used to show    *)
(* that a property depends on X.                                           *)
(***************************************************************************)
EXTENDS Integers, Sequences, FiniteSets, Bags, TLC

\* Bounds of the model.
MaxConns == 2       \* connections ever created (arrivals + connects)
MaxHandles == 2     \* stream handles alive at once
MaxBytes == 1       \* bytes ever put on the wire, both directions, all connections
MaxStack == 4       \* frames a dispatch may nest before the stack overflows
MaxTries == 2       \* attempts for which the transport's outcome is drawn
MaxValues == 5      \* requests / responses that carry a write status

Threads == {"t1", "t2"}
Bytes == {"a", "b"}
Conns == 1..MaxConns
Outcomes == [1..MaxTries -> {"ok", "err"}]
Values == 1..MaxValues

VARIABLES
    listener,   \* "none" | "bound": the HttpListener value the caller holds
    acceptor,   \* "none" | "listening" | "closed": the shared TcpAcceptor resource
    holders,    \* the threads that hold an HttpAcceptor handle (clones)
    pc,         \* pc[t]: "idle" | "accept_pre" | "accept_post" (in accept(), entered
                \*        before / after a close() returned)
    closeReturned,  \* history: some close() call has returned
    backlog,    \* connections that arrived and were not accepted yet, oldest first
    conns,      \* conns[c]: "free" | "pending" | "open" | "closed"
    handles,    \* the live stream handles, a bag of at most MaxHandles handles
    wire,       \* wire[c]: the bytes the peer of c has received, in order
    inbox,      \* inbox[c]: the bytes the peer of c sent that were not read yet
    log,        \* history: per connection a handle was created for, the bytes
                \* written (out) and read (got) through its handles, and the bytes
                \* its peer sent (peer)
    accepted,   \* history: the connections accept() returned, in order
    last,       \* history: the most recent call and what it returned
    status,     \* status[v]: "none" | the write-status tag of value v
    starts      \* history: starts[v], the transitions value v has made

vars == <<listener, acceptor, holders, pc, closeReturned, backlog, conns, handles,
          wire, inbox, log, accepted, last, status, starts>>

streamvars == <<conns, handles, wire, inbox, log>>
netvars == <<listener, acceptor, holders, pc, closeReturned, backlog, accepted, last,
             conns, handles, wire, inbox, log>>
statusvars == <<status, starts>>

\* A stream handle: the connection it refers to, "HttpStream" or "Box" (the
\* erased Box<NetworkStream + Send>), and a history field: the connection the
\* handle's ancestor was created for by accept() or connect().
Handles == BagToSet(handles)

NoCall == [op |-> "none", who |-> "-", via |-> "-", env |-> "ok", res |-> "ok",
           calls |-> 0, made |-> FALSE, peer |-> 0]

Call(op, who, via, env, res, calls, made, peer) ==
    [op |-> op, who |-> who, via |-> via, env |-> env, res |-> res,
     calls |-> calls, made |-> made, peer |-> peer]

HasFreeHandle == BagCardinality(handles) < MaxHandles
With(hs, h) == hs (+) SetToBag({h})
Without(hs, h) == hs (-) SetToBag({h})
Replace(hs, h, g) == With(Without(hs, h), g)
NewStream(c) == [conn |-> c, kind |-> "HttpStream", origin |-> c]
HasFreeConn == \E c \in Conns : conns[c] = "free"
NextConn == CHOOSE c \in Conns : conns[c] = "free" /\ \A d \in Conns : d < c => conns[d] # "free"

RECURSIVE SumLen(_)
SumLen(S) ==
    IF S = {} THEN 0
    ELSE LET c == CHOOSE x \in S : TRUE
         IN Len(log[c].out) + Len(log[c].peer) + SumLen(S \ {c})
TotalBytes == SumLen(Conns)

IsErr(r) == r \in {"err", "io", "closed"}

----------------------------------------------------------------------------
\* Variant: the call is attempted again until it succeeds.
Try_retries(results) ==
    LET ok == {i \in 1..MaxTries : ~IsErr(results[i])}
        i == IF ok = {} THEN MaxTries ELSE CHOOSE j \in ok : \A k \in ok : j <= k
    IN [res |-> results[i], calls |-> i, made |-> results[i] \in {"ok", "conn"}]

\* try!(e) inside Ok(X { inner: try!(e) }): one evaluation of e; an Err is
\* returned to the caller at once and X is not built.  `results` are the
\* results the transport would give on successive attempts.
Try(results) ==
    [res |-> results[1], calls |-> 1, made |-> results[1] \in {"ok", "conn"}]

HttpListener_bind(outs) == Try(outs)
HttpListener_listen(outs) == Try(outs)
HttpStream_connect(outs) == Try(outs)

\* self.inner.accept(): the closed flag is looked at first; a failing attempt
\* is a transient error; with nothing pending the call waits.
TcpAcceptor_accept(a, q, o) ==
    IF a = "closed" THEN "closed"
    ELSE IF o = "err" THEN "io"
    ELSE IF q = <<>> THEN "block"
    ELSE "conn"

\* Variant: an error of the inner accept is not returned; the call goes on
\* waiting.
HttpAcceptor_accept_swallows(a, q, outs) ==
    LET r == Try([i \in 1..MaxTries |-> TcpAcceptor_accept(a, q, outs[i])])
    IN IF IsErr(r.res) THEN [r EXCEPT !.res = "block"] ELSE r

\* Ok(HttpStream { inner: try!(self.inner.accept()) })
HttpAcceptor_accept(a, q, outs) ==
    Try([i \in 1..MaxTries |-> TcpAcceptor_accept(a, q, outs[i])])

\* Variant: the accepted connection stays on the queue.
Backlog_peek(q) == q

\* self.inner.accept() takes the oldest pending connection off the queue.
Backlog_after_accept(q) == Tail(q)

\* Variant: close() does not reach the inner acceptor.
HttpAcceptor_close_forgets(a) == a

\* self.inner.close_accept(): sets the flag all clones share.
HttpAcceptor_close(a) == "closed"

----------------------------------------------------------------------------
OtherConn(c) == (c % MaxConns) + 1

\* Variant: the clone is a handle on a connection of its own.
HttpStream_clone_copies(r) == [r EXCEPT !.conn = OtherConn(r.conn)]

\* #[deriving(Clone)] on HttpStream { inner: TcpStream }: the clone refers to
\* the same socket.
HttpStream_clone(r) == r

\* box self as Box<NetworkStream + Send>
abstract(r) == [r EXCEPT !.kind = "Box"]

\* The concrete value an erased handle wraps.
Unbox(r) == [r EXCEPT !.kind = "HttpStream"]

\* Variant: the clone is not erased again.
clone_box_unerased(r) == HttpStream_clone(r)

\* self.clone().abstract(), self being the concrete stream
clone_box(r) == abstract(HttpStream_clone(r))

\* impl Clone for Box<NetworkStream + Send>: self.clone_box(), a virtual call
\* on the wrapped value.
Box_clone(r) == clone_box(Unbox(r))

Clone(r) == IF r.kind = "Box" THEN Box_clone(r) ELSE HttpStream_clone(r)

\* Variant: every drop of a handle closes the socket.
Closes_on_every_drop(hs, h) == TRUE

\* HttpStream has no Drop of its own: dropping a handle drops its TcpStream
\* clone, and the socket is closed when no clone is left.
Closes_on_drop(hs, h) ==
    ~\E g \in BagToSet(Without(hs, h)) : g.conn = h.conn

----------------------------------------------------------------------------
\* Variant: the call in the impl for the erased handle is a call of that impl.
Callee_reenters(impl) == IF impl = "Box" THEN "Box" ELSE "TcpStream"

\* The callee of self.read(buf) / self.write(msg) / self.flush() in the body
\* of each impl.  In `impl Reader for Box<NetworkStream + Send>` the receiver
\* is &mut Box<NetworkStream + Send>; the language this file is written in
\* (box expressions, deriving, uint, IoResult) looks up a method among the
\* receiver's inherent candidates at every autoderef step before it considers
\* any impl of an imported trait, and the methods of the object type
\* NetworkStream (with those of its supertraits Reader and Writer) are
\* inherent candidates: the call is the virtual call on the wrapped value.
\* In the impls for HttpStream the callee is self.inner, the TcpStream.
Callee(impl) == IF impl = "Box" THEN "HttpStream" ELSE "TcpStream"

\* The impls a call on a handle of kind `impl` enters, outermost first, with
\* `fuel` frames of stack left.
RECURSIVE Dispatch(_, _)
Dispatch(impl, fuel) ==
    IF impl = "TcpStream" \/ fuel = 0 THEN <<impl>>
    ELSE <<impl>> \o Dispatch(Callee(impl), fuel - 1)

Reaches(kind) == Dispatch(kind, MaxStack)[Len(Dispatch(kind, MaxStack))] = "TcpStream"
Steps(kind) == Len(Dispatch(kind, MaxStack)) - 1

\* read / write / flush through a handle of kind `kind` on connection c: the
\* result, and the connection's two byte queues afterwards.
Stream_write(kind, c, b) ==
    IF Reaches(kind)
    THEN [res |-> "ok", data |-> b, wire |-> Append(wire[c], b), inbox |-> inbox[c]]
    ELSE [res |-> "overflow", data |-> "-", wire |-> wire[c], inbox |-> inbox[c]]

Stream_read(kind, c) ==
    IF Reaches(kind)
    THEN [res |-> "ok", data |-> Head(inbox[c]), wire |-> wire[c], inbox |-> Tail(inbox[c])]
    ELSE [res |-> "overflow", data |-> "-", wire |-> wire[c], inbox |-> inbox[c]]

Stream_flush(kind, c) ==
    IF Reaches(kind)
    THEN [res |-> "ok", data |-> "-", wire |-> wire[c], inbox |-> inbox[c]]
    ELSE [res |-> "overflow", data |-> "-", wire |-> wire[c], inbox |-> inbox[c]]

----------------------------------------------------------------------------
Init ==
    /\ listener = "none"
    /\ acceptor = "none"
    /\ holders = {}
    /\ pc = [t \in Threads |-> "idle"]
    /\ closeReturned = FALSE
    /\ backlog = <<>>
    /\ conns = [c \in Conns |-> "free"]
    /\ handles = EmptyBag
    /\ wire = [c \in Conns |-> <<>>]
    /\ inbox = [c \in Conns |-> <<>>]
    /\ log = [c \in Conns |-> [out |-> <<>>, got |-> <<>>, peer |-> <<>>]]
    /\ accepted = <<>>
    /\ last = NoCall
    /\ status = [v \in Values |-> "none"]
    /\ starts = [v \in Values |-> 0]

\* HttpListener::bind(host, port)
Bind(outs) ==
    /\ listener = "none"
    /\ acceptor = "none"
    /\ LET r == HttpListener_bind(outs)
       IN /\ listener' = IF r.made THEN "bound" ELSE listener
          /\ last' = Call("bind", "-", "-", outs[1], r.res, r.calls, r.made, 0)
    /\ UNCHANGED <<acceptor, holders, pc, closeReturned, backlog, accepted>>
    /\ UNCHANGED streamvars
    /\ UNCHANGED statusvars

\* HttpListener::listen(self): the listener is consumed whatever the result.
Listen(outs) ==
    /\ listener = "bound"
    /\ LET r == HttpListener_listen(outs)
       IN /\ listener' = "none"
          /\ acceptor' = IF r.made THEN "listening" ELSE acceptor
          /\ holders' = IF r.made THEN {"t1"} ELSE holders
          /\ last' = Call("listen", "-", "-", outs[1], r.res, r.calls, r.made, 0)
    /\ UNCHANGED <<pc, closeReturned, backlog, accepted>>
    /\ UNCHANGED streamvars
    /\ UNCHANGED statusvars

\* #[deriving(Clone)] on HttpAcceptor: thread t hands a clone to thread u.
AcceptorClone(t, u) ==
    /\ acceptor # "none"
    /\ t \in holders
    /\ u \notin holders
    /\ holders' = holders \cup {u}
    /\ UNCHANGED <<listener, acceptor, pc, closeReturned, backlog, accepted, last>>
    /\ UNCHANGED statusvars
    /\ UNCHANGED streamvars

\* A client connects to the listening socket.
Arrive ==
    /\ acceptor # "none"
    /\ HasFreeConn
    /\ conns' = [conns EXCEPT ![NextConn] = "pending"]
    /\ backlog' = Append(backlog, NextConn)
    /\ UNCHANGED <<listener, acceptor, holders, pc, closeReturned, handles, wire, inbox, log,
                   accepted, last>>
    /\ UNCHANGED statusvars

\* HttpAcceptor::accept: the thread enters the call ...
AcceptCall(t) ==
    /\ t \in holders
    /\ pc[t] = "idle"
    /\ pc' = [pc EXCEPT ![t] = IF closeReturned THEN "accept_post" ELSE "accept_pre"]
    /\ UNCHANGED <<listener, acceptor, holders, closeReturned, backlog, accepted, last>>
    /\ UNCHANGED statusvars
    /\ UNCHANGED streamvars

\* ... and returns from it.
AcceptReturn(t, outs) ==
    /\ pc[t] # "idle"
    /\ LET r == HttpAcceptor_accept(acceptor, backlog, outs)
           inner == TcpAcceptor_accept(acceptor, backlog, outs[1])
           c == Head(backlog)
       IN /\ r.res # "block"
          /\ r.made => HasFreeHandle
          /\ IF r.made
             THEN /\ backlog' = Backlog_after_accept(backlog)
                  /\ conns' = [conns EXCEPT ![c] = "open"]
                  /\ handles' = With(handles, NewStream(c))
                  /\ accepted' = Append(accepted, c)
             ELSE UNCHANGED <<backlog, conns, handles, accepted>>
          /\ last' = Call("accept", t, pc[t], IF IsErr(inner) THEN "err" ELSE "ok",
                          r.res, r.calls, r.made, IF r.made THEN c ELSE 0)
    /\ pc' = [pc EXCEPT ![t] = "idle"]
    /\ UNCHANGED <<listener, acceptor, holders, closeReturned, wire, inbox, log>>
    /\ UNCHANGED statusvars

\* Variant: closing the acceptor also closes the connections it accepted.
Close_shuts_streams(t) ==
    /\ t \in holders
    /\ pc[t] = "idle"
    /\ acceptor' = HttpAcceptor_close(acceptor)
    /\ closeReturned' = TRUE
    /\ conns' = [c \in Conns |-> IF conns[c] = "open" THEN "closed" ELSE conns[c]]
    /\ last' = Call("close", t, "-", "ok", "ok", 1, FALSE, 0)
    /\ UNCHANGED <<listener, holders, pc, backlog, accepted, handles, wire, inbox, log>>
    /\ UNCHANGED statusvars

\* HttpAcceptor::close
Close(t) ==
    /\ t \in holders
    /\ pc[t] = "idle"
    /\ acceptor' = HttpAcceptor_close(acceptor)
    /\ closeReturned' = TRUE
    /\ last' = Call("close", t, "-", "ok", "ok", 1, FALSE, 0)
    /\ UNCHANGED <<listener, holders, pc, backlog, accepted>>
    /\ UNCHANGED statusvars
    /\ UNCHANGED streamvars

\* HttpStream::connect(host, port)
Connect(outs) ==
    /\ HasFreeConn
    /\ HasFreeHandle
    /\ LET r == HttpStream_connect(outs)
           c == NextConn
       IN /\ IF r.made
             THEN /\ conns' = [conns EXCEPT ![c] = "open"]
                  /\ handles' = With(handles, NewStream(c))
             ELSE UNCHANGED <<conns, handles>>
          /\ last' = Call("connect", "-", "-", outs[1], r.res, r.calls, r.made,
                          IF r.made THEN c ELSE 0)
    /\ UNCHANGED <<listener, acceptor, holders, pc, closeReturned, backlog, wire, inbox, log, accepted>>
    /\ UNCHANGED statusvars

\* clone() of a stream handle, concrete or erased.
StreamClone(h) ==
    /\ HasFreeHandle
    /\ handles' = With(handles, Clone(h))
    /\ last' = Call("clone", "-", h.kind, "ok", "ok", 1, TRUE, h.conn)
    /\ UNCHANGED <<listener, acceptor, holders, pc, closeReturned, backlog, conns, wire, inbox, log,
                   accepted>>
    /\ UNCHANGED statusvars

\* NetworkStream::abstract(self)
Abstract(h) ==
    /\ h.kind = "HttpStream"
    /\ handles' = Replace(handles, h, abstract(h))
    /\ last' = Call("abstract", "-", h.kind, "ok", "ok", 1, FALSE, h.conn)
    /\ UNCHANGED <<listener, acceptor, holders, pc, closeReturned, backlog, conns, wire, inbox, log,
                   accepted>>
    /\ UNCHANGED statusvars

\* A handle goes out of scope.
Drop(h) ==
    /\ handles' = Without(handles, h)
    /\ conns' = [conns EXCEPT ![h.conn] =
                    IF Closes_on_drop(handles, h) THEN "closed" ELSE @]
    /\ last' = Call("drop", "-", h.kind, "ok", "ok", 1, FALSE, h.conn)
    /\ UNCHANGED <<listener, acceptor, holders, pc, closeReturned, backlog, wire, inbox, log, accepted>>
    /\ UNCHANGED statusvars

\* write(msg) through handle h
Write(h, b) ==
    /\ TotalBytes < MaxBytes
    /\ LET c == h.conn
           o == h.origin
           r == Stream_write(h.kind, c, b)
       IN /\ wire' = [wire EXCEPT ![c] = r.wire]
          /\ inbox' = [inbox EXCEPT ![c] = r.inbox]
          /\ log' = [log EXCEPT ![o].out = Append(@, b)]
          /\ last' = Call("write", "-", h.kind, "ok", r.res,
                          Steps(h.kind), FALSE, c)
    /\ UNCHANGED <<listener, acceptor, holders, pc, closeReturned, backlog, conns, handles, accepted>>
    /\ UNCHANGED statusvars

\* read(buf) through handle h; with nothing to read the call waits.
Read(h) ==
    /\ inbox[h.conn] # <<>>
    /\ LET c == h.conn
           o == h.origin
           r == Stream_read(h.kind, c)
       IN /\ wire' = [wire EXCEPT ![c] = r.wire]
          /\ inbox' = [inbox EXCEPT ![c] = r.inbox]
          /\ log' = [log EXCEPT ![o].got = IF r.res = "ok" THEN Append(@, r.data) ELSE @]
          /\ last' = Call("read", "-", h.kind, "ok", r.res,
                          Steps(h.kind), FALSE, c)
    /\ UNCHANGED <<listener, acceptor, holders, pc, closeReturned, backlog, conns, handles, accepted>>
    /\ UNCHANGED statusvars

\* flush() through handle h
Flush(h) ==
    /\ LET c == h.conn
           r == Stream_flush(h.kind, c)
       IN /\ wire' = [wire EXCEPT ![c] = r.wire]
          /\ inbox' = [inbox EXCEPT ![c] = r.inbox]
          /\ last' = Call("flush", "-", h.kind, "ok", r.res,
                          Steps(h.kind), FALSE, c)
    /\ UNCHANGED <<listener, acceptor, holders, pc, closeReturned, backlog, conns, handles, log, accepted>>
    /\ UNCHANGED statusvars

\* peer_name() through handle h: the address of the connection's peer.
PeerName(h) ==
    /\ last' = Call("peer_name", "-", h.kind, "ok", "ok", 1, FALSE, h.conn)
    /\ UNCHANGED <<listener, acceptor, holders, pc, closeReturned, backlog, accepted>>
    /\ UNCHANGED statusvars
    /\ UNCHANGED streamvars

\* The peer of an open connection sends a byte.
PeerSend(c, b) ==
    /\ conns[c] = "open"
    /\ TotalBytes < MaxBytes
    /\ inbox' = [inbox EXCEPT ![c] = Append(@, b)]
    /\ log' = [log EXCEPT ![c].peer = Append(@, b)]
    /\ UNCHANGED <<listener, acceptor, holders, pc, closeReturned, backlog, conns, handles, wire,
                   accepted, last>>
    /\ UNCHANGED statusvars

\* The write status: Fresh and Streaming are the only implementors of
\* WriteStatus, and of its private supertrait.
Private == {"Fresh", "Streaming"}
WriteStatus == {"Fresh", "Streaming"} \cap Private

\* Variant: the transition of a Streaming value gives a Fresh one.
start_reverts(s) == IF s = "Fresh" THEN "Streaming" ELSE "Fresh"

\* The transition of the owning request / response: the headers go out with
\* the first body byte or an explicit flush of the headers, and the value
\* becomes a Streaming one; a Streaming value has no such operation.
start(s) == IF s = "Fresh" THEN "Streaming" ELSE s

\* A request / response is made: its headers are not written.
NewValue(v) ==
    /\ status[v] = "none"
    /\ status' = [status EXCEPT ![v] = "Fresh"]
    /\ UNCHANGED <<starts, netvars>>

\* The headers of v are written.
Start(v) ==
    /\ status[v] \in WriteStatus
    /\ start(status[v]) # status[v]
    /\ status' = [status EXCEPT ![v] = start(status[v])]
    /\ starts' = [starts EXCEPT ![v] = @ + 1]
    /\ UNCHANGED netvars

NextStatus ==
    \/ \E v \in Values : NewValue(v)
    \/ \E v \in Values : Start(v)

StatusSpec == Init /\ [][NextStatus]_vars

\* The accepting side: a listener, its acceptor and the acceptor's clones, and
\* the streams accept() and connect() return.
NextAcceptor ==
    \/ \E outs \in Outcomes : Bind(outs)
    \/ \E outs \in Outcomes : Listen(outs)
    \/ \E t, u \in Threads : AcceptorClone(t, u)
    \/ Arrive
    \/ \E t \in Threads : AcceptCall(t)
    \/ \E t \in Threads, outs \in Outcomes : AcceptReturn(t, outs)
    \/ \E t \in Threads : Close(t)
    \/ \E outs \in Outcomes : Connect(outs)

AcceptorSpec == Init /\ [][NextAcceptor]_vars

\* A thread blocked in accept() is resumed once its call can return.
FairAcceptorSpec ==
    AcceptorSpec /\ \A t \in Threads : WF_vars(\E outs \in Outcomes : AcceptReturn(t, outs))

\* The accepting side together with I/O on the streams it made.
NextServer ==
    \/ NextAcceptor
    \/ \E h \in Handles, b \in Bytes : Write(h, b)
    \/ \E h \in Handles : Read(h)
    \/ \E h \in Handles : Flush(h)
    \/ \E h \in Handles : PeerName(h)
    \/ \E c \in Conns, b \in Bytes : PeerSend(c, b)

ServerSpec == Init /\ [][NextServer]_vars

\* The stream side: streams made by connect(), their clones and erasures,
\* drops, and I/O on them.
NextStream ==
    \/ \E outs \in Outcomes : Connect(outs)
    \/ \E h \in Handles : StreamClone(h)
    \/ \E h \in Handles : Abstract(h)
    \/ \E h \in Handles : Drop(h)
    \/ \E h \in Handles, b \in Bytes : Write(h, b)
    \/ \E h \in Handles : Read(h)
    \/ \E h \in Handles : Flush(h)
    \/ \E h \in Handles : PeerName(h)
    \/ \E c \in Conns, b \in Bytes : PeerSend(c, b)

StreamSpec == Init /\ [][NextStream]_vars

\* Everything together.
Next == NextServer \/ NextStream \/ NextStatus

Spec == Init /\ [][Next]_vars

----------------------------------------------------------------------------
Range(q) == {q[i] : i \in DOMAIN q}
HandlesOn(c) == {h \in Handles : h.conn = c}
CountOn(c) == BagCardinality([h \in HandlesOn(c) |-> handles[h]])
Erased(c) == [conn |-> c, kind |-> "Box", origin |-> c]
Fallible == {"bind", "listen", "accept", "connect"}

\* C1: an accept() call entered after a close() has returned, on the closing
\* handle or on any clone, returns the closed error: never a stream, never a
\* transient I/O error.
C1_AcceptAfterCloseIsClosed ==
    (last.op = "accept" /\ last.via = "accept_post")
        => (last.res = "closed" /\ ~last.made)

\* A clone of the acceptor, entered after close() with a connection pending,
\* got the closed error.
C1_Witness ==
    /\ last.op = "accept" /\ last.via = "accept_post" /\ last.who = "t2"
    /\ last.res = "closed"
    /\ backlog # <<>>

\* C2: a thread that is inside accept() when close() returns on another
\* handle does not stay blocked: it eventually returns, and what it returns is
\* the closed error.
C2_BlockedAcceptReturnsClosed ==
    /\ \A t \in Threads :
          (pc[t] = "accept_pre" /\ closeReturned)
              ~> (pc[t] = "idle" /\ last.op = "accept" /\ last.who = t
                  /\ last.res = "closed")
    /\ [][\A t \in Threads :
            (pc[t] = "accept_pre" /\ closeReturned /\ pc'[t] = "idle")
                => (last'.op = "accept" /\ last'.who = t /\ last'.res = "closed")]_vars

\* A thread that entered accept() before the close, with nothing pending,
\* returned the closed error.
C2_Witness ==
    /\ last.op = "accept" /\ last.via = "accept_pre" /\ last.res = "closed"
    /\ closeReturned
    /\ accepted = <<>> /\ backlog = <<>>

\* C3: close() on the acceptor leaves every stream as it was: the step changes
\* no handle, no connection and no byte queue, and the connection of every
\* handle is open after it, so read, write, flush and peer_name (which look at
\* nothing else) do what they would have done.
C3_CloseLeavesStreams ==
    /\ [](closeReturned => \A h \in Handles : conns[h.conn] = "open")
    /\ [][(last'.op = "close" /\ last' # last) => UNCHANGED streamvars]_vars

\* After the close, a write on an accepted stream succeeded.
C3_Witness ==
    /\ closeReturned
    /\ last.op = "write" /\ last.res = "ok"
    /\ last.peer \in Range(accepted)
    /\ wire[last.peer] # <<>>

\* C4: every handle refers to the connection its ancestor was created for (a
\* clone is never a new connection); the peer of a connection has received
\* exactly the bytes written through the handles of that connection, in order,
\* and the bytes the peer sent are those read through these handles followed by
\* those still unread.
C4_CloneSharesConnection ==
    /\ \A h \in Handles : h.conn = h.origin
    /\ \A c \in Conns : wire[c] = log[c].out
    /\ \A c \in Conns : log[c].peer = log[c].got \o inbox[c]

\* A byte was written while two handles shared the connection, and the peer
\* received it.
C4_Witness ==
    /\ last.op = "write" /\ last.res = "ok"
    /\ CountOn(last.peer) >= 2
    /\ Len(wire[last.peer]) >= 1

\* C5: the clone of an erased handle is an erased handle on the same
\* connection, and every erased handle, however many abstract() and clone()
\* calls made it, refers to the connection its ancestor was created for.
C5_ErasedCloneShares ==
    /\ [](\A h \in Handles : h.kind = "Box" => (h.conn = h.origin /\ conns[h.conn] = "open"))
    /\ [][(last'.op = "clone" /\ last'.via = "Box" /\ handles' # handles)
            => handles' = With(handles, Erased(last'.peer))]_vars

\* An erased handle was cloned: two erased handles on one connection.
C5_Witness ==
    /\ last.op = "clone" /\ last.via = "Box"
    /\ CopiesIn(Erased(last.peer), handles) >= 2

C7_AcceptsAreDistinct ==
    /\ \A i, j \in DOMAIN accepted : i # j => accepted[i] # accepted[j]
    /\ \A i, j \in DOMAIN backlog : i # j => backlog[i] # backlog[j]
    /\ Range(accepted) \cap Range(backlog) = {}
    /\ \A c \in Range(accepted) : conns[c] # "pending"
    /\ (last.op = "accept" /\ last.made) => last.peer = accepted[Len(accepted)]

\* Two threads in accept() at once; two connections were returned.
C7_Witness ==
    /\ Len(accepted) = 2
    /\ last.op = "accept" /\ last.who = "t2" /\ last.made
    /\ pc["t1"] # "idle"

\* C8: a connection is open exactly when some handle refers to it.
C8_OpenIffHandle ==
    \A c \in Conns : (conns[c] = "open") <=> (HandlesOn(c) # {})

\* One of several handles of a connection was dropped and the connection is
\* open; another connection was closed by the drop of its last handle.
C8_Witness ==
    /\ last.op = "drop"
    /\ conns[last.peer] = "open"
    /\ \E c \in Conns : conns[c] = "closed"

\* C9: a value's write status is Fresh or Streaming and nothing else; a value
\* starts Fresh, makes the transition to Streaming at most once (a Streaming
\* value has made it exactly once) and, once Streaming, stays Streaming.
C9_FreshThenStreaming ==
    /\ [](\A v \in Values :
            /\ status[v] \in {"none", "Fresh", "Streaming"}
            /\ status[v] # "none" => status[v] \in WriteStatus
            /\ starts[v] <= 1
            /\ (status[v] = "Streaming") <=> (starts[v] = 1))
    /\ [][\A v \in Values :
            /\ status[v] = "Streaming" => status'[v] = "Streaming"
            /\ (status[v] = "none" /\ status'[v] # "none") => status'[v] = "Fresh"]_vars

\* One value is Streaming while another is still Fresh.
C9_Witness ==
    \E v, w \in Values : status[v] = "Streaming" /\ starts[v] = 1 /\ status[w] = "Fresh"

\* C10: when the transport's bind, listen, accept or connect fails, the call
\* returns an error after that one attempt and creates no listener, acceptor or
\* stream.
C10_FailureSurfaces ==
    /\ []((last.op \in Fallible /\ last.env = "err")
            => (IsErr(last.res) /\ last.calls = 1 /\ ~last.made))
    /\ [][(last' # last /\ last'.op \in Fallible /\ last'.env = "err")
            => /\ handles' = handles
               /\ conns' = conns
               /\ accepted' = accepted
               /\ backlog' = backlog
               /\ holders' = holders
               /\ acceptor' = acceptor
               /\ listener' \in {listener, "none"}]_vars

\* An accept() failed with a transient error while a connection was pending.
C10_Witness ==
    /\ last.op = "accept" /\ last.env = "err" /\ last.res = "io"
    /\ backlog # <<>>

====
